---- MODULE Spec2Model ----
(***************************************************************************)
(* Model of the feed pipeline of FetchBook.py: process_files (parsing and  *)
(* filtering of feed files), fetch_book_data / fetch_bulk_book_details     *)
(* (chunked enrichment lookups under the tenacity retry decorator) and the *)
(* merge phase of main.                                                    *)
(*                                                                         *)
(* A Python str is a sequence of one-character strings, so that strip(),   *)
(* lower() and int() are computed rather than assumed.  A dict is a        *)
(* function whose DOMAIN is its key set.  Python's None is NoneVal.        *)
(***************************************************************************)
EXTENDS Integers, Sequences, FiniteSets, Bags, TLC

\* ------------------------------------------------------------------ bounds
MaxFiles == 2          \* feed files handed to process_files
MaxRows == 2           \* data rows per generated feed file
MaxEans == 250         \* identifiers handed to fetch_book_data on its own
MaxLog == 4            \* requests remembered per run (the log saturates)
MaxUploadRows == 250   \* rows of a CSV file handed to the uploader on its own
MaxUploads == 2        \* runs of the uploader against the same store
MaxItems == 2          \* unlisted rows the listing script reads
MaxFailAt == 2         \* an ADD COLUMN request that raises is among the first ones

\* ------------------------------------------------------ program constants
BATCH_SIZE == 100
MAX_API_RETRIES == 3
API_RETRY_DELAY == 2
API_RETRY_WAIT_MAX == 30
STOCK_THRESHOLD == 4
UPLOAD_BATCH_SIZE == 100
UPLOAD_BATCH_SIZE_V2 == 5000
UPLOAD_ATTEMPTS == 3

\* ------------------------------------------------------------ Python str
NoneVal == <<"None">>
EmptyStr == <<>>
Whitespace == {" "}
Digits == {"0", "1", "2", "3", "4", "5", "6", "7", "8", "9"}

RECURSIVE lstrip(_)
lstrip(s) == IF s # <<>> /\ Head(s) \in Whitespace THEN lstrip(Tail(s)) ELSE s

RECURSIVE rstrip(_)
rstrip(s) ==
  IF s # <<>> /\ s[Len(s)] \in Whitespace
  THEN rstrip(SubSeq(s, 1, Len(s) - 1)) ELSE s

strip(s) == rstrip(lstrip(s))

LowerChar(c) ==
  CASE c = "A" -> "a" [] c = "C" -> "c" [] c = "E" -> "e" [] c = "I" -> "i"
    [] c = "K" -> "k" [] c = "L" -> "l" [] c = "N" -> "n" [] c = "O" -> "o"
    [] c = "S" -> "s" [] c = "T" -> "t" [] OTHER -> c

lower(s) == [i \in 1..Len(s) |-> LowerChar(s[i])]

normalize_column_name(name) == lower(strip(name))

\* int(s): optional sign, then one or more decimal digits, blanks around
IntBody(s) ==
  LET t == strip(s)
  IN IF t # <<>> /\ Head(t) \in {"+", "-"} THEN Tail(t) ELSE t

IntParses(s) ==
  /\ IntBody(s) # <<>>
  /\ \A i \in 1..Len(IntBody(s)) : IntBody(s)[i] \in Digits

DigitVal(c) ==
  CASE c = "0" -> 0 [] c = "1" -> 1 [] c = "2" -> 2 [] c = "3" -> 3
    [] c = "4" -> 4 [] c = "5" -> 5 [] c = "6" -> 6 [] c = "7" -> 7
    [] c = "8" -> 8 [] c = "9" -> 9

RECURSIVE DigitsVal(_)
DigitsVal(d) ==
  IF d = <<>> THEN 0
  ELSE 10 * DigitsVal(SubSeq(d, 1, Len(d) - 1)) + DigitVal(d[Len(d)])

IntVal(s) ==
  IF strip(s) # <<>> /\ Head(strip(s)) = "-"
  THEN 0 - DigitsVal(IntBody(s)) ELSE DigitsVal(IntBody(s))

\* str(n) for n >= 0
RECURSIVE ToStr(_)
ToStr(n) ==
  LET d == CASE n % 10 = 0 -> "0" [] n % 10 = 1 -> "1" [] n % 10 = 2 -> "2"
             [] n % 10 = 3 -> "3" [] n % 10 = 4 -> "4" [] n % 10 = 5 -> "5"
             [] n % 10 = 6 -> "6" [] n % 10 = 7 -> "7" [] n % 10 = 8 -> "8"
             [] n % 10 = 9 -> "9"
  IN IF n < 10 THEN <<d>> ELSE Append(ToStr(n \div 10), d)

\* ------------------------------------------------------------- key names
STOCK == <<"s", "t", "o", "c", "k">>
EAN == <<"e", "a", "n">>
TITLE == <<"t", "i", "t", "l", "e">>

\* ------------------------------------------------------- feed file inputs
\* A feed file is the sequence of rows csv.reader yields: the banner line,
\* the header row, then the data rows.  Each row is a sequence of cells.
Banner == << <<"B">> >>

NormalHeader ==
  << <<" ", "S", "t", "o", "c", "k">>, <<"E", "A", "N">>,
     <<"t", "i", "t", "l", "e", " ">> >>

GoodRow == << <<" ", "5">>, <<"1", "1", "1">>, <<"O", "l", "d">> >>
LowRow == << <<"4">>, <<"2", "2", "2">>, <<>> >>
BadRow == << <<"x">>, <<"3", "3", "3">>, <<"N">> >>
ShortRow == << <<"5", "0", " ">> >>

DataRows == { GoodRow, LowRow, BadRow }

RECURSIVE SeqsUpTo(_, _)
SeqsUpTo(S, n) ==
  IF n = 0 THEN { <<>> }
  ELSE SeqsUpTo(S, n - 1) \cup
       { Append(q, x) : q \in { p \in SeqsUpTo(S, n - 1) : Len(p) = n - 1 },
                        x \in S }

\* files with the usual header and every sequence of up to MaxRows data rows
GeneratedFiles ==
  { <<Banner, NormalHeader>> \o rows : rows \in SeqsUpTo(DataRows, MaxRows) }

\* files that take the other paths of process_files
FileNoStock == << Banner, << EAN, TITLE >>, << <<"1", "1", "1">>, <<"O", "l", "d">> >> >>
FileDupStock ==
  << Banner, << STOCK, <<"E", "A", "N">>, <<"S", "T", "O", "C", "K">> >>, GoodRow >>
FileShortRow == << Banner, NormalHeader, ShortRow, GoodRow >>
FileBlankRow == << Banner, NormalHeader, << >>, GoodRow >>
FileLongRow == << Banner, << STOCK, EAN >>, GoodRow, << <<"7">>, <<"9">> >> >>
FileBannerOnly == << Banner >>
\* the same identifier twice in one file, once with blanks around it
FileSpacedEan ==
  << Banner, NormalHeader,
     << <<"9">>, <<" ", "1", "1", "1", " ">>, <<"O", "l", "d">> >>, GoodRow >>

SpecialFiles ==
  { FileNoStock, FileDupStock, FileShortRow, FileBlankRow, FileLongRow,
    FileBannerOnly, FileSpacedEan }

FeedFiles == GeneratedFiles \cup SpecialFiles

FileLists == SeqsUpTo(FeedFiles, MaxFiles)

\* ------------------------------------------------------------------ dicts
Range(f) == { f[i] : i \in DOMAIN f }
EmptyDict == [k \in {} |-> NoneVal]
Get(d, k) == IF k \in DOMAIN d THEN d[k] ELSE NoneVal
\* d.update(e) / {**d, **e}
Update(d, e) ==
  [k \in DOMAIN d \cup DOMAIN e |-> IF k \in DOMAIN e THEN e[k] ELSE d[k]]
Max(S) == CHOOSE x \in S : \A y \in S : y <= x
Min(a, b) == IF a < b THEN a ELSE b

VARIABLES
  pc,                 \* position in main
  files,              \* the downloaded feed files, in list order
  fileIdx,            \* process_files: index of the next file
  all_rows,           \* process_files: retained records
  ean_set,            \* process_files: identifier set
  all_input_columns,  \* process_files: observed column names
  eans,               \* fetch_book_data: identifier list
  api_data,           \* fetch_book_data: enrichment mapping
  batch_num,          \* fetch_book_data: chunk counter
  attempt,            \* tenacity: attempt number of the current call
  service,            \* the enrichment service's catalogue (an input)
  log,                \* history: requests issued, oldest first
  slept,              \* history: seconds the last step spent in time.sleep
  mergeIdx,           \* main: index of the next record to merge
  matched_data,       \* main: matched partition
  unmatched_data,     \* main: unmatched partition
  placed,             \* history: where each merged record went
  listing,            \* download_ftp_files: what ftp.nlst() returns (an input)
  ftp_error,          \* history: download_ftp_files logged an FTP error
  matched_file,       \* main: the matched CSV file, NoFile while not written
  unmatched_file,     \* main: the unmatched CSV file, NoFile while not written
  variant,            \* which uploader module runs: upload_supa or upload_supaV2
  csv_file,           \* upload_csv_to_supabase: the file at csv_path
  table,              \* the remote table of the store
  reachable,          \* whether the store answers the uploader's first select
  stmts,              \* history: SQL statements sent through execute_sql
  data_columns,       \* upload_csv_to_supabase: normalized CSV field names
  csv_rows,           \* upload_csv_to_supabase: rows, the CSV rows read
  batch_idx,          \* upload_csv_to_supabase: start index of the batch
  up_attempt,         \* tenacity: attempt number of safe_batch_insert
  inserted,           \* upload_csv_to_supabase: reported count
  failed_batches,     \* upload_csv_to_supabase: batches that exhausted retries
  failed_file,        \* the side file, NoFile while not written
  uplog,              \* history: batch requests issued, oldest first
  uploads,            \* number of uploads started
  inventory,          \* the stored rows not listed; from line 313 on, the rows main read
  item_idx,           \* ebay_listing7_withRT.main: index of the next item
  listed,             \* ids of the rows whose 'listed' flag is true in the store
  success_count,      \* ebay_listing7_withRT.main: listings counted
  calls,              \* history: AddFixedPriceItem calls, oldest first
  ebay_failure        \* history: what raised out of ebay_listing7_withRT.main

uploadVars ==
  << variant, csv_file, table, reachable, stmts, data_columns, csv_rows,
     batch_idx, up_attempt,
     inserted, failed_batches, failed_file, uplog, uploads >>

listVars ==
  << inventory, item_idx, listed, success_count, calls, ebay_failure >>

\* what the feed pipeline up to the merge leaves alone
outVars ==
  << listing, ftp_error, matched_file, unmatched_file, uploadVars, listVars >>

vars ==
  << pc, files, fileIdx, all_rows, ean_set, all_input_columns, eans, api_data,
     batch_num, attempt, service, log, slept, mergeIdx, matched_data,
     unmatched_data, placed, outVars >>

parseVars == << fileIdx, all_rows, ean_set, all_input_columns >>
fetchVars == << eans, api_data, batch_num, attempt, service, log, slept >>
mergeVars == << mergeIdx, matched_data, unmatched_data, placed >>

\* what the uploader leaves alone
feedSide ==
  << files, listing, ftp_error, matched_file, unmatched_file, parseVars,
     fetchVars, mergeVars, listVars >>

\* ---------------------------------------------------------- process_files
Headers(file) == [i \in 1..Len(file[2]) |-> normalize_column_name(file[2][i])]

HasStock(headers) == \E i \in 1..Len(headers) : headers[i] = STOCK

\* headers.index('stock') + 1
StockIdx(headers) ==
  CHOOSE i \in 1..Len(headers) :
    headers[i] = STOCK /\ \A j \in 1..(i - 1) : headers[j] # STOCK

\* {headers[i]: val.strip() for i, val in enumerate(row)}: a later column of
\* the same name overwrites an earlier one
RowDict(headers, row) ==
  [k \in { headers[i] : i \in 1..Len(row) } |->
     strip(row[Max({ i \in 1..Len(row) : headers[i] = k })])]

\* RowOutcome with a slip: the stock value is parsed but not compared with
\* the threshold
RowOutcome_NoThreshold(headers, sidx, row) ==
  IF Len(row) < sidx THEN "skip"
  ELSE IF ~IntParses(strip(row[sidx])) THEN "ValueError"
  ELSE IF Len(row) > Len(headers) THEN "IndexError"
  ELSE IF EAN \notin DOMAIN RowDict(headers, row) THEN "KeyError"
  ELSE "keep"

\* what the body of the row loop (lines 85-91) does with one row
RowOutcome(headers, sidx, row) ==
  IF Len(row) < sidx THEN "skip"
  ELSE IF ~IntParses(strip(row[sidx])) THEN "ValueError"
  ELSE IF IntVal(strip(row[sidx])) <= STOCK_THRESHOLD THEN "skip"
  ELSE IF Len(row) > Len(headers) THEN "IndexError"
  ELSE IF EAN \notin DOMAIN RowDict(headers, row) THEN "KeyError"
  ELSE "keep"

\* the row loop; an exception leaves it (caught at line 94)
RECURSIVE ProcessRows(_, _, _, _)
ProcessRows(headers, sidx, rows, acc) ==
  IF rows = <<>> THEN acc
  ELSE LET o == RowOutcome(headers, sidx, Head(rows))
           d == RowDict(headers, Head(rows))
       IN CASE o = "skip" -> ProcessRows(headers, sidx, Tail(rows), acc)
            [] o = "keep" ->
                 ProcessRows(headers, sidx, Tail(rows),
                             [all_rows |-> Append(acc.all_rows, d),
                              ean_set |-> acc.ean_set \cup { d[EAN] }])
            [] o = "KeyError" ->
                 [all_rows |-> Append(acc.all_rows, d), ean_set |-> acc.ean_set]
            [] OTHER -> acc

\* ProcessOneFile with a slip: a header row without 'stock' falls back to
\* the first column instead of skipping the file
ProcessOneFile_FirstColumn(file, acc) ==
  IF Len(file) < 2 THEN acc
  ELSE LET headers == Headers(file)
           cols == acc.all_input_columns \cup Range(headers)
           sidx == IF HasStock(headers) THEN StockIdx(headers) ELSE 1
           r == ProcessRows(headers, sidx, SubSeq(file, 3, Len(file)),
                            [all_rows |-> acc.all_rows, ean_set |-> acc.ean_set])
       IN [all_rows |-> r.all_rows, ean_set |-> r.ean_set,
           all_input_columns |-> cols]

\* one iteration of the file loop (lines 68-95)
ProcessOneFile(file, acc) ==
  IF Len(file) < 2 THEN acc
  ELSE LET headers == Headers(file)
           cols == acc.all_input_columns \cup Range(headers)
       IN IF ~HasStock(headers)
          THEN [acc EXCEPT !.all_input_columns = cols]
          ELSE LET r == ProcessRows(headers, StockIdx(headers),
                                    SubSeq(file, 3, Len(file)),
                                    [all_rows |-> acc.all_rows,
                                     ean_set |-> acc.ean_set])
               IN [all_rows |-> r.all_rows, ean_set |-> r.ean_set,
                   all_input_columns |-> cols]

\* FileResult with a slip: the file list is walked from its end
FileResult_LastFirst ==
  ProcessOneFile(files[Len(files) + 1 - fileIdx],
                 [all_rows |-> all_rows, ean_set |-> ean_set,
                  all_input_columns |-> all_input_columns])

FileResult ==
  ProcessOneFile(files[fileIdx],
                 [all_rows |-> all_rows, ean_set |-> ean_set,
                  all_input_columns |-> all_input_columns])

ProcessFile ==
  /\ pc = "process_files"
  /\ fileIdx <= Len(files)
  /\ all_rows' = FileResult.all_rows
  /\ ean_set' = FileResult.ean_set
  /\ all_input_columns' = FileResult.all_input_columns
  /\ fileIdx' = fileIdx + 1
  /\ UNCHANGED << pc, files, outVars, fetchVars, mergeVars >>

\* Orderings with a slip: the identifiers are collected in a list, one per
\* retained record, instead of in a set
Orderings_PerRecord(S) ==
  { [i \in DOMAIN all_rows |-> Get(all_rows[i], EAN)] }

\* every ordering list(all_eans) can produce
Orderings(S) ==
  { q \in [1..Cardinality(S) -> S] : \A x \in S : \E i \in DOMAIN q : q[i] = x }

\* process_files returns; main builds the identifier list (lines 98, 199-200)
ProcessFilesReturn ==
  /\ pc = "process_files"
  /\ fileIdx > Len(files)
  /\ pc' = "fetch_book_data"
  /\ eans' \in Orderings(ean_set)
  /\ UNCHANGED << files, outVars, parseVars, api_data, batch_num, attempt,
                  service, log, slept, mergeVars >>

InitParseVars ==
  /\ fileIdx = 1
  /\ all_rows = <<>>
  /\ ean_set = {}
  /\ all_input_columns = {}

InitFetchVars ==
  /\ api_data = EmptyDict
  /\ batch_num = 0
  /\ attempt = 1
  /\ log = <<>>
  /\ slept = 0

InitMergeVars ==
  /\ mergeIdx = 1
  /\ matched_data = <<>>
  /\ unmatched_data = <<>>
  /\ placed = <<>>

\* the uploader modules
V1 == "upload_supa"
V2 == "upload_supaV2"

\* a path at which no file has been written
NoFile == [exists |-> FALSE, fieldnames |-> <<>>, rows |-> <<>>]

\* the remote table before it is created
MissingTable == [exists |-> FALSE, cols |-> {}, pk |-> FALSE, rows |-> EmptyBag]

InitUploadVars ==
  /\ reachable = TRUE
  /\ stmts = <<>>
  /\ data_columns = <<>>
  /\ csv_rows = <<>>
  /\ batch_idx = 0
  /\ up_attempt = 1
  /\ inserted = 0
  /\ failed_batches = <<>>
  /\ failed_file = NoFile
  /\ uplog = <<>>
  /\ uploads = 0

\* the listing script has not run
InitIdleListing ==
  /\ inventory = <<>>
  /\ item_idx = 1
  /\ listed = {}
  /\ success_count = 0
  /\ calls = <<>>
  /\ ebay_failure = "none"

\* nothing of the uploader has run and no output file is written
InitIdleOut ==
  /\ InitIdleListing
  /\ listing = <<>>
  /\ ftp_error = FALSE
  /\ matched_file = NoFile
  /\ unmatched_file = NoFile
  /\ variant = V1
  /\ csv_file = NoFile
  /\ table = MissingTable
  /\ InitUploadVars

NoService == [has |-> {}, tv |-> "absent", noid |-> FALSE]

InitParse ==
  /\ pc = "process_files"
  /\ files \in FileLists
  /\ eans = <<>>
  /\ service = NoService
  /\ InitParseVars
  /\ InitFetchVars
  /\ InitMergeVars
  /\ InitIdleOut

NextParse == ProcessFile \/ ProcessFilesReturn

SpecParse == InitParse /\ [][NextParse]_vars

\* ------------------------------------------- enrichment service (inputs)
K_isbn13 == <<"i", "s", "b", "n", "1", "3">>
K_isbn10 == <<"i", "s", "b", "n", "1", "0">>
K_description == <<"d", "e", "s", "c", "r", "i", "p", "t", "i", "o", "n">>
K_synopsis == <<"s", "y", "n", "o", "p", "s", "i", "s">>
K_cover_image == <<"c", "o", "v", "e", "r", "_", "i", "m", "a", "g", "e">>
K_image == <<"i", "m", "a", "g", "e">>
K_author == <<"a", "u", "t", "h", "o", "r">>
K_authors == <<"a", "u", "t", "h", "o", "r", "s">>
K_publisher == <<"p", "u", "b", "l", "i", "s", "h", "e", "r">>
K_publication_year ==
  <<"p", "u", "b", "l", "i", "c", "a", "t", "i", "o", "n", "_", "y", "e", "a", "r">>
K_date_published ==
  <<"d", "a", "t", "e", "_", "p", "u", "b", "l", "i", "s", "h", "e", "d">>
K_language == <<"l", "a", "n", "g", "u", "a", "g", "e">>
K_pages == <<"p", "a", "g", "e", "s">>
K_binding == <<"b", "i", "n", "d", "i", "n", "g">>

NullStr == <<"n", "u", "l", "l">>
NewTitle == <<"N", "e", "w">>

\* what the service may put in the title of the books of one response
TitleVariants == { "new", "empty", "null", "absent" }

\* one raw record of the service's data array
RawBook(id, tv) ==
  LET base == (K_isbn13 :> id) @@ (K_authors :> << <<"A">>, <<"B">> >>)
                @@ (K_synopsis :> <<"S">>)
  IN CASE tv = "new" -> base @@ (TITLE :> NewTitle)
       [] tv = "empty" -> base @@ (TITLE :> EmptyStr)
       [] tv = "null" -> base @@ (TITLE :> NullStr)
       [] OTHER -> base

\* a record that lacks the identifier field
RawBookNoId == (TITLE :> NewTitle) @@ (K_isbn10 :> <<"9">>)

\* the data array of a 200 response to a request for `batch`: the records of
\* the catalogue for the requested identifiers, in request order, then
\* possibly a record without identifier
Books(batch) ==
  LET Known(id) == id \in service.has
      known == SelectSeq(batch, Known)
  IN [k \in 1..Len(known) |-> RawBook(known[k], service.tv)]
       \o (IF service.noid THEN << RawBookNoId >> ELSE << >>)

\* Retry-After header of a 429 response: absent, a number, or not a number
RetryAfterHeaders == { NoneVal, <<"1">>, <<"x">> }

\* ------------------------------------------------------ process_book_data
\* ", ".join(xs)
RECURSIVE Join(_)
Join(xs) ==
  IF xs = <<>> THEN <<>>
  ELSE IF Len(xs) = 1 THEN xs[1]
  ELSE xs[1] \o <<",", " ">> \o Join(Tail(xs))

\* a or b
PyOr(a, b) == IF a \in { NoneVal, EmptyStr } THEN b ELSE a

process_book_data(book) ==
  (TITLE :> Get(book, TITLE))
    @@ (K_description :> PyOr(Get(book, K_synopsis), Get(book, K_description)))
    @@ (K_cover_image :> Get(book, K_image))
    @@ (K_author :> Join(IF K_authors \in DOMAIN book THEN book[K_authors] ELSE <<>>))
    @@ (K_publisher :> Get(book, K_publisher))
    @@ (K_publication_year :> Get(book, K_date_published))
    @@ (K_language :> Get(book, K_language))
    @@ (K_isbn10 :> Get(book, K_isbn10))
    @@ (K_isbn13 :> Get(book, K_isbn13))
    @@ (K_pages :> Get(book, K_pages))
    @@ (K_binding :> Get(book, K_binding))

\* ------------------------------------------------ fetch_bulk_book_details
\* the dict comprehension of lines 121-125 over the data array
\* (a later record of the same identifier overwrites an earlier one)
\* BooksToDict with a slip: a record without identifier is returned under
\* the key 'None' with a null value instead of being left out
BooksToDict_NullForMissing(books, id_type) ==
  LET Has(i) == Get(books[i], id_type) \notin { NoneVal, EmptyStr }
      key(i) == IF Has(i) THEN strip(books[i][id_type])
                ELSE <<"N", "o", "n", "e">>
  IN [k \in { key(i) : i \in 1..Len(books) } |->
        LET last == Max({ i \in 1..Len(books) : key(i) = k })
        IN IF Has(last) THEN process_book_data(books[last]) ELSE NoneVal]

BooksToDict(books, id_type) ==
  LET valid == { i \in 1..Len(books) :
                   Get(books[i], id_type) \notin { NoneVal, EmptyStr } }
      key(i) == strip(books[i][id_type])
  IN [k \in { key(i) : i \in valid } |->
        process_book_data(books[Max({ i \in valid : key(i) = k })])]

\* ---------------------------------------------------------- fetch_book_data
total_eans == Len(eans)

\* Slice with a slip: the end index is taken as inclusive of one less
Slice_OneShort(q, start_idx, end_idx) ==
  SubSeq(q, start_idx + 1, Min(end_idx - 1, Len(q)))

\* eans[start_idx:end_idx]
Slice(q, start_idx, end_idx) == SubSeq(q, start_idx + 1, Min(end_idx, Len(q)))

Batch == Slice(eans, batch_num * BATCH_SIZE, batch_num * BATCH_SIZE + BATCH_SIZE)

Logged(outcome) ==
  IF Len(log) < MaxLog
  THEN Append(log, [batch |-> batch_num, size |-> Len(Batch), outcome |-> outcome])
  ELSE log

InLoop == pc = "fetch_book_data" /\ batch_num * BATCH_SIZE < total_eans

\* the call returned `result`: lines 169-172
CallReturned(result, outcome) ==
  /\ api_data' = Update(api_data, result)
  /\ batch_num' = batch_num + 1
  /\ attempt' = 1
  /\ log' = Logged(outcome)
  /\ slept' = 0
  /\ UNCHANGED << pc, files, outVars, parseVars, eans, service, mergeVars >>

\* 200 with a data array
RequestOK ==
  /\ InLoop
  /\ \E books \in { Books(Batch) } :
       \E result \in { BooksToDict(books, K_isbn13) } :
         CallReturned(result, "ok")

\* raise_for_status raises for a status other than 429 (5xx, 4xx): line 133
RequestHTTPError ==
  /\ InLoop
  /\ CallReturned(EmptyDict, "http_error")

\* requests.post raises (connection error, timeout): line 136
RequestNetworkError ==
  /\ InLoop
  /\ CallReturned(EmptyDict, "network_error")

\* int(e.response.headers.get('Retry-After', 30)) and time.sleep: an
\* unparsable header raises before the sleep
RetryAfterSleep(h) ==
  IF h = NoneVal THEN 30 ELSE IF IntParses(h) THEN IntVal(h) ELSE 0

\* tenacity after an attempt raised: call again while attempts remain,
\* else RetryError, caught at line 176, which leaves batch_num as it is
AfterRaise(n) == IF n < MAX_API_RETRIES THEN n + 1 ELSE 1

\* wait_exponential(multiplier=1, min=API_RETRY_DELAY, max=30) after attempt
\* n raised: 2^(n-1) seconds, kept between the minimum and the maximum
wait_exponential(n) ==
  Max({ API_RETRY_DELAY, Min(2 ^ (n - 1), API_RETRY_WAIT_MAX) })

\* the sleep of tenacity before the next attempt; none after the last one
TenacityWait(n) == IF n < MAX_API_RETRIES THEN wait_exponential(n) ELSE 0

\* 429: lines 128-132 sleep and re-raise (an unparsable Retry-After raises
\* ValueError instead); tenacity waits and calls again
Request429 ==
  /\ InLoop
  /\ \E h \in RetryAfterHeaders :
       slept' = RetryAfterSleep(h) + TenacityWait(attempt)
  /\ attempt' = AfterRaise(attempt)
  /\ log' = Logged("rate_limited")
  /\ UNCHANGED << pc, files, outVars, parseVars, eans, api_data, batch_num,
                  service, mergeVars >>

\* the loop condition of line 162 fails: lines 182-183
FetchReturn ==
  /\ pc = "fetch_book_data"
  /\ ~(batch_num * BATCH_SIZE < total_eans)
  /\ pc' = "merge"
  /\ UNCHANGED << files, outVars, parseVars, fetchVars, mergeVars >>

\* identifier lists for fetch_book_data on its own: "1", "2", ..., str(n)
EanCounts ==
  { 0, 1, BATCH_SIZE, BATCH_SIZE + 1, 2 * BATCH_SIZE, (5 * BATCH_SIZE) \div 2,
    MaxEans }

IdList(n) == [i \in 1..n |-> ToStr(i)]

FetchServices ==
  { [has |-> Range(IdList(MaxEans)), tv |-> "new", noid |-> TRUE],
    [has |-> {}, tv |-> "new", noid |-> FALSE],
    [has |-> Range(IdList(MaxEans)) \ Range(IdList(BATCH_SIZE)), tv |-> "new",
     noid |-> FALSE] }

InitFetch ==
  /\ pc = "fetch_book_data"
  /\ files = <<>>
  /\ \E n \in EanCounts : eans = IdList(n)
  /\ service \in FetchServices
  /\ InitParseVars
  /\ InitFetchVars
  /\ InitMergeVars
  /\ InitIdleOut

NextFetch ==
  \/ RequestOK
  \/ RequestHTTPError
  \/ RequestNetworkError
  \/ Request429
  \/ FetchReturn

SpecFetch == InitFetch /\ [][NextFetch]_vars

\* ------------------------------------------------------------------- main
\* line 190: no downloaded file ends the run with ValueError
CheckFiles ==
  /\ pc = "main"
  /\ pc' = IF files = <<>> THEN "raised" ELSE "process_files"
  /\ UNCHANGED << files, outVars, parseVars, fetchVars, mergeVars >>

\* MergedDict with a slip: the values are not filtered
MergedDict_Unfiltered(row, book_data) ==
  LET both == Update(row, book_data)
  IN [kk \in { lower(k) : k \in DOMAIN both } |->
        both[CHOOSE k \in DOMAIN both : lower(k) = kk]]

\* {k.lower(): v for k, v in {**row, **book_data}.items()
\*  if v not in (None, "", "null")}
MergedDict(row, book_data) ==
  LET both == Update(row, book_data)
      kept == { k \in DOMAIN both : both[k] \notin { NoneVal, EmptyStr, NullStr } }
  IN [kk \in { lower(k) : k \in kept } |->
        both[CHOOSE k \in kept : lower(k) = kk]]

\* {k.lower(): v for k, v in row.items()}
CleanRow(row) ==
  [kk \in { lower(k) : k \in DOMAIN row } |->
     row[CHOOSE k \in DOMAIN row : lower(k) = kk]]

\* one iteration of the merge loop (lines 213-227); row['ean'] raises
\* KeyError for a record without that key, caught at line 225
MergeRecord ==
  /\ pc = "merge"
  /\ mergeIdx <= Len(all_rows)
  /\ LET row == all_rows[mergeIdx]
     IN IF EAN \notin DOMAIN row
        THEN /\ placed' = Append(placed, [to |-> "dropped", at |-> 0])
             /\ UNCHANGED << matched_data, unmatched_data >>
        ELSE IF strip(row[EAN]) \in DOMAIN api_data
        THEN /\ matched_data' =
                  Append(matched_data, MergedDict(row, api_data[strip(row[EAN])]))
             /\ placed' =
                  Append(placed, [to |-> "matched", at |-> Len(matched_data) + 1])
             /\ UNCHANGED unmatched_data
        ELSE /\ unmatched_data' = Append(unmatched_data, CleanRow(row))
             /\ placed' =
                  Append(placed, [to |-> "unmatched", at |-> Len(unmatched_data) + 1])
             /\ UNCHANGED matched_data
  /\ mergeIdx' = mergeIdx + 1
  /\ UNCHANGED << pc, files, outVars, parseVars, fetchVars >>

MergeDone ==
  /\ pc = "merge"
  /\ mergeIdx > Len(all_rows)
  /\ pc' = "write_csv"
  /\ UNCHANGED << files, outVars, parseVars, fetchVars, mergeVars >>

\* ------------------------------------------- upload_supa / upload_supaV2

\* BATCH_SIZE of the uploader module in use
UploadBatchSize(v) == IF v = V1 THEN UPLOAD_BATCH_SIZE ELSE UPLOAD_BATCH_SIZE_V2

K_id == <<"i", "d">>
UNKNOWN_COLUMN ==
  <<"u", "n", "k", "n", "o", "w", "n", "_", "c", "o", "l", "u", "m", "n">>

Alnum ==
  Digits \cup
  { "a", "b", "c", "d", "e", "f", "g", "h", "i", "j", "k", "l", "m", "n", "o",
    "p", "q", "r", "s", "t", "u", "v", "w", "x", "y", "z",
    "A", "C", "E", "I", "K", "L", "N", "O", "S", "T" }

\* normalize_column_name of the uploader modules: strip, lower, blanks and
\* every other non-alphanumeric character to '_', at most 63 characters
upload_normalize_column_name(name) ==
  LET t == lower(strip(name))
      u == [i \in 1..Len(t) |->
              IF t[i] \in Alnum \/ t[i] = "_" THEN t[i] ELSE "_"]
  IN IF u = <<>> THEN UNKNOWN_COLUMN ELSE SubSeq(u, 1, Min(63, Len(u)))

\* csv.DictReader over a file [fieldnames, rows]: one dict per data row,
\* keyed by the field names as they stand in the file
IndexOf(q, x) == CHOOSE i \in 1..Len(q) : q[i] = x /\ \A j \in (i + 1)..Len(q) : q[j] # x

ReadRows(file) ==
  [i \in 1..Len(file.rows) |->
     [k \in Range(file.fieldnames) |-> file.rows[i][IndexOf(file.fieldnames, k)]]]

ReadColumns(file) ==
  [i \in 1..Len(file.fieldnames) |->
     upload_normalize_column_name(file.fieldnames[i])]

\* ------------------------------------------------- the store (collaborator)
\* A table has a column set, possibly a primary key on ean, and a bag of
\* rows (rows are not ordered and may repeat).
EansOf(q) == { q[i][EAN] : i \in { j \in DOMAIN q : EAN \in DOMAIN q[j] } }

StoredEans(t) ==
  { r[EAN] : r \in { x \in BagToSet(t.rows) : EAN \in DOMAIN x } }

\* select("*").limit(1): the keys of the sampled row are the table's columns;
\* the keys of one sampled row; an empty table yields no row and a select
\* that raises is logged: get_existing_columns returns [] for both
get_existing_columns(t, answered) ==
  IF ~answered \/ t.rows = EmptyBag THEN {} ELSE t.cols

\* ALTER TABLE ... ADD PRIMARY KEY (ean) succeeds on a table with an ean
\* column, no primary key yet and distinct non-null ean values
PrimaryKeyAccepted(t) ==
  /\ EAN \in t.cols
  /\ ~t.pk
  /\ \A r \in BagToSet(t.rows) : EAN \in DOMAIN r /\ r[EAN] # NoneVal
  /\ Cardinality(StoredEans(t)) = BagCardinality(t.rows)

\* the rows of a request as a bag
BagOfSeq(q) ==
  IF Cardinality(Range(q)) = Len(q) THEN SetToBag(Range(q))
  ELSE [r \in Range(q) |-> Cardinality({ i \in DOMAIN q : q[i] = r })]

\* INSERT ... ON CONFLICT (ean) DO NOTHING: a row whose ean is already stored,
\* or stands earlier in the batch, is left out
UpsertIgnore(t, batch) ==
  LET stored == StoredEans(t)
      fresh == { i \in DOMAIN batch : batch[i][EAN] \notin stored }
      firsts ==
        IF Cardinality(EansOf(batch)) = Len(batch) THEN fresh
        ELSE { i \in fresh : \A j \in 1..(i - 1) : batch[j][EAN] # batch[i][EAN] }
  IN t.rows (+) SetToBag({ batch[i] : i \in firsts })

\* safe_batch_insert with a slip: upload_supaV2 sends a plain insert too
safe_batch_insert_PlainInsert(v, t, batch) == t.rows (+) BagOfSeq(batch)

\* the rows of the table after one accepted call of safe_batch_insert:
\* insert(batch) in upload_supa, upsert(batch, on_conflict="ean",
\* ignore_duplicates=True) in upload_supaV2
safe_batch_insert(v, t, batch) ==
  IF v = V1 THEN t.rows (+) BagOfSeq(batch) ELSE UpsertIgnore(t, batch)

\* whether the store executes the request: the table exists and has every
\* column the rows name; an upsert on ean needs the unique key on ean; under
\* a primary key on ean an insert must bring distinct, new, non-null eans
StoreAccepts(v, t, batch) ==
  /\ t.exists
  /\ \A i \in DOMAIN batch : DOMAIN batch[i] \subseteq t.cols
  /\ (v = V2 \/ t.pk) => \A i \in DOMAIN batch : EAN \in DOMAIN batch[i]
  /\ v = V2 => t.pk
  /\ (v = V1 /\ t.pk) =>
       /\ Cardinality(EansOf(batch)) = Len(batch)
       /\ EansOf(batch) \cap StoredEans(t) = {}

\* ------------------------------------------------- upload_csv_to_supabase
total_records == Len(csv_rows)

UploadBatch == Slice(csv_rows, batch_idx, batch_idx + UploadBatchSize(variant))

upload_batch_num == (batch_idx \div UploadBatchSize(variant)) + 1

\* lines 65-74: open and read the CSV file; a missing file raises
\* FileNotFoundError out of the function
UploadOpen ==
  /\ pc = "upload_csv_to_supabase"
  /\ IF ~csv_file.exists
     THEN /\ pc' = "raised"
          /\ UNCHANGED << data_columns, csv_rows >>
     ELSE /\ pc' = "check_and_create_table"
          /\ data_columns' = ReadColumns(csv_file)
          /\ csv_rows' = ReadRows(csv_file)
  /\ uploads' = uploads + 1
  /\ uplog' = <<>>
  /\ stmts' = <<>>
  /\ failed_file' = NoFile
  /\ reachable' \in BOOLEAN
  /\ UNCHANGED << feedSide, variant, csv_file, table, batch_idx,
                  up_attempt, inserted, failed_batches >>

AddColumn(col) == [op |-> "ADD COLUMN IF NOT EXISTS", col |-> col, type |-> "TEXT"]
AddPrimaryKey == [op |-> "ADD PRIMARY KEY", col |-> EAN, type |-> "KEY"]
CreateTable(key, cols) == [op |-> "CREATE TABLE", col |-> key, type |-> cols]

\* the rpc of CREATE TABLE in the except block: the store creates a table
\* that does not exist; on a table that exists it creates nothing.  The
\* request returns (returned) or raises, and an exception raised in the
\* except block leaves the function.
CreateFresh(v, t, columns, returned) ==
  LET NotEan(col) == col # EAN
      created == returned /\ ~t.exists
  IN IF v = V1
     THEN [stmts |-> << CreateTable(K_id, columns) >>,
           table |-> IF created
                     THEN [exists |-> TRUE, cols |-> { K_id } \cup Range(columns),
                           pk |-> FALSE, rows |-> EmptyBag]
                     ELSE t,
           raised |-> ~returned]
     ELSE [stmts |-> << CreateTable(EAN, SelectSeq(columns, NotEan)) >>,
           table |-> IF created
                     THEN [exists |-> TRUE, cols |-> { EAN } \cup Range(columns),
                           pk |-> TRUE, rows |-> EmptyBag]
                     ELSE t,
           raised |-> ~returned]

\* the except block for an exception of the try block, after the statements
\* `sent`: with 'does not exist' in the text of the exception (says_missing)
\* CREATE TABLE is sent, else the exception is raised again
ExceptBlock(v, t, sent, columns, says_missing, returned) ==
  IF says_missing
  THEN LET c == CreateFresh(v, t, columns, returned)
       IN [stmts |-> sent \o c.stmts, table |-> c.table, raised |-> c.raised]
  ELSE [stmts |-> sent, table |-> t, raised |-> TRUE]

\* the try block of check_and_create_table after an answered first select.
\* The rpc of the ADD COLUMN statement number fail_at raises (0, or a number
\* beyond the last statement: none does) and the except block is entered.
\* In upload_supaV2 the ADD PRIMARY KEY rpc may raise too (returned FALSE),
\* which is caught inside the try block.
SyncSchema(v, t, columns, answered, fail_at, says_missing, returned) ==
  LET existing_columns == get_existing_columns(t, answered)
      Lacking(col) == col \notin existing_columns
      missing == SelectSeq(columns, Lacking)
      failed == fail_at \in 1..Len(missing)
      sent == IF failed THEN SubSeq(missing, 1, fail_at) ELSE missing
      added == IF failed THEN SubSeq(missing, 1, fail_at - 1) ELSE missing
      stmts_sent == [i \in 1..Len(sent) |-> AddColumn(sent[i])]
      t1 == [t EXCEPT !.cols = @ \cup Range(added)]
  IN IF failed
     THEN ExceptBlock(v, t1, stmts_sent, columns, says_missing, returned)
     ELSE [stmts |-> stmts_sent
                       \o (IF v = V2 THEN << AddPrimaryKey >> ELSE << >>),
           table |-> IF v = V2 /\ returned /\ PrimaryKeyAccepted(t1)
                     THEN [t1 EXCEPT !.pk = TRUE] ELSE t1,
           raised |-> FALSE]

\* check_and_create_table: the first select is answered (first_ok) or
\* raises; m: the text of the exception has 'does not exist'; r: the last
\* rpc returned
check_and_create_table(v, t, columns, first_ok, answered, fail_at, m, r) ==
  IF first_ok
  THEN SyncSchema(v, t, columns, answered, fail_at, m, r)
  ELSE ExceptBlock(v, t, << >>, columns, m, r)

\* line 76 and lines 78-80.  The first select is answered by a reachable
\* store that has the table.  A reachable store without the table raises
\* with 'does not exist' in the text; an unreachable store raises with
\* another text when the table is missing and with either text when the
\* table exists; an rpc that raises does so with either text.  An exception
\* that leaves check_and_create_table leaves upload_csv_to_supabase.
CheckAndCreateTable ==
  /\ pc = "check_and_create_table"
  /\ \E r \in { check_and_create_table(variant, table, data_columns,
                                       reachable /\ table.exists, answered,
                                       fail_at,
                                       IF table.exists \/ ~reachable
                                       THEN says_missing /\ table.exists
                                       ELSE TRUE,
                                       returned) :
                  answered \in BOOLEAN,
                  fail_at \in 0..Min(Len(data_columns), MaxFailAt),
                  says_missing \in BOOLEAN,
                  returned \in BOOLEAN } :
       /\ stmts' = r.stmts
       /\ table' = r.table
       /\ IF r.raised
          THEN /\ pc' = "raised"
               /\ UNCHANGED << batch_idx, inserted, failed_batches,
                               up_attempt >>
          ELSE /\ pc' = "batches"
               /\ batch_idx' = 0
               /\ inserted' = 0
               /\ failed_batches' = <<>>
               /\ up_attempt' = 1
  /\ UNCHANGED << feedSide, variant, csv_file, reachable,
                  data_columns, csv_rows, failed_file, uplog, uploads >>

InBatchLoop == pc = "batches" /\ batch_idx < total_records

UpLogged(outcome) ==
  Append(uplog, [batch |-> upload_batch_num, size |-> Len(UploadBatch),
                 outcome |-> outcome])

\* InsertedAfter with a slip: every batch is counted as a full one
InsertedAfter_FullBatch(n, batch) == n + UploadBatchSize(variant)

\* inserted += len(batch)
InsertedAfter(n, batch) == n + Len(batch)

\* safe_batch_insert returned: lines 87-90
BatchInserted ==
  /\ InBatchLoop
  /\ StoreAccepts(variant, table, UploadBatch) = TRUE
  /\ \E stored \in { safe_batch_insert(variant, table, UploadBatch) } :
       table' = [table EXCEPT !.rows = stored]
  /\ inserted' = InsertedAfter(inserted, UploadBatch)
  /\ batch_idx' = batch_idx + UploadBatchSize(variant)
  /\ up_attempt' = 1
  /\ uplog' = UpLogged("inserted")
  /\ UNCHANGED << pc, feedSide, variant, csv_file, reachable, stmts,
                  data_columns, csv_rows, failed_batches, failed_file,
                  uploads >>

\* the request raised (the store rejected it or could not be reached) and
\* tenacity calls safe_batch_insert again
BatchAttemptFailed ==
  /\ InBatchLoop
  /\ up_attempt < UPLOAD_ATTEMPTS
  /\ up_attempt' = up_attempt + 1
  /\ uplog' = UpLogged("error")
  /\ UNCHANGED << pc, feedSide, variant, csv_file, table, reachable,
                  stmts, data_columns, csv_rows, batch_idx, inserted,
                  failed_batches, failed_file, uploads >>

\* BatchFailed with a slip: the RetryError is not caught and leaves the
\* upload
BatchFailed_Abort ==
  /\ InBatchLoop
  /\ up_attempt = UPLOAD_ATTEMPTS
  /\ pc' = "raised"
  /\ uplog' = UpLogged("error")
  /\ UNCHANGED << feedSide, variant, csv_file, table, reachable,
                  stmts, data_columns, csv_rows, batch_idx, up_attempt,
                  inserted, failed_batches, failed_file, uploads >>

\* the last attempt raised: RetryError, lines 91-93, and the for loop goes on
BatchFailed ==
  /\ InBatchLoop
  /\ up_attempt = UPLOAD_ATTEMPTS
  /\ failed_batches' = Append(failed_batches, UploadBatch)
  /\ batch_idx' = batch_idx + UploadBatchSize(variant)
  /\ up_attempt' = 1
  /\ uplog' = UpLogged("error")
  /\ UNCHANGED << pc, feedSide, variant, csv_file, table, reachable,
                  stmts, data_columns, csv_rows, inserted, failed_file,
                  uploads >>

\* lines 98-106: the side file is written when a batch failed
UploadReturn ==
  /\ pc = "batches"
  /\ ~(batch_idx < total_records)
  /\ pc' = "done"
  /\ failed_file' =
       IF failed_batches # <<>>
       THEN [exists |-> TRUE, fieldnames |-> <<>>, rows |-> failed_batches]
       ELSE failed_file
  /\ UNCHANGED << feedSide, variant, csv_file, table, reachable,
                  stmts, data_columns, csv_rows, batch_idx, up_attempt,
                  inserted, failed_batches, uplog, uploads >>

\* the uploader is run once more on the same file
UploadAgain ==
  /\ pc = "done"
  /\ uploads < MaxUploads
  /\ pc' = "upload_csv_to_supabase"
  /\ UNCHANGED << files, outVars, parseVars, fetchVars, mergeVars >>

\* ----------------------------------------------------- uploader inputs
\* a CSV file as csv.DictWriter leaves it: n rows of ean "1", "2", ...
UploadCsv(n) ==
  [exists |-> TRUE, fieldnames |-> << EAN, K_publication_year, TITLE >>,
   rows |-> [i \in 1..n |-> << ToStr(i), <<>>, <<"T">> >>]]

\* the same ean in two rows
CsvDupEan ==
  [exists |-> TRUE, fieldnames |-> << EAN, K_publication_year, TITLE >>,
   rows |-> << << <<"1">>, <<>>, <<"T">> >>, << <<"1">>, <<>>, <<"U">> >> >>]

\* field names that normalize_column_name changes
CsvSpacedHeader ==
  [exists |-> TRUE,
   fieldnames |-> << <<"E", "A", "N">>,
                     <<"I", "n", " ", "S", "t", "o", "c", "k">>, TITLE >>,
   rows |-> << << <<"1">>, <<"7">>, <<"T">> >> >>]

\* row counts around the batch size of the uploader module
UploadCounts(v) ==
  IF v = V1
  THEN { 0, 1, UPLOAD_BATCH_SIZE, UPLOAD_BATCH_SIZE + 1,
         (5 * UPLOAD_BATCH_SIZE) \div 2, MaxUploadRows }
  ELSE { 0, 1, MaxUploadRows, UPLOAD_BATCH_SIZE_V2, UPLOAD_BATCH_SIZE_V2 + 1 }

UploadCsvs(v) ==
  { UploadCsv(n) : n \in UploadCounts(v) } \cup { CsvDupEan, CsvSpacedHeader }

StoredRow == (EAN :> <<"1">>) @@ (TITLE :> <<"O", "l", "d">>)

UploadTables ==
  { MissingTable,
    [exists |-> TRUE, cols |-> { EAN, TITLE, K_publication_year },
     pk |-> FALSE, rows |-> (StoredRow :> 2)] }
  \cup
  { [exists |-> TRUE, cols |-> c, pk |-> b, rows |-> r] :
      c \in { { EAN, TITLE }, { EAN, TITLE, K_publication_year } },
      b \in BOOLEAN, r \in { EmptyBag, SetToBag({ StoredRow }) } }

InitIdleFeed ==
  /\ files = <<>>
  /\ eans = <<>>
  /\ service = NoService
  /\ listing = <<>>
  /\ ftp_error = FALSE
  /\ matched_file = NoFile
  /\ unmatched_file = NoFile
  /\ InitParseVars
  /\ InitFetchVars
  /\ InitMergeVars

InitUpload ==
  /\ pc = "upload_csv_to_supabase"
  /\ variant \in { V1, V2 }
  /\ csv_file \in UploadCsvs(variant) \cup { NoFile }
  /\ table \in UploadTables
  /\ InitIdleFeed
  /\ InitUploadVars
  /\ InitIdleListing

NextUpload ==
  \/ UploadOpen
  \/ CheckAndCreateTable
  \/ BatchInserted
  \/ BatchAttemptFailed
  \/ BatchFailed
  \/ UploadReturn
  \/ UploadAgain

SpecUpload == InitUpload /\ [][NextUpload]_vars

\* ------------------------------------------------------ download_ftp_files
UpperChar(c) ==
  CASE c = "a" -> "A" [] c = "b" -> "B" [] c = "c" -> "C" [] c = "n" -> "N"
    [] c = "s" -> "S" [] c = "t" -> "T" [] c = "v" -> "V" [] c = "x" -> "X"
    [] OTHER -> c

upper(s) == [i \in 1..Len(s) |-> UpperChar(s[i])]

endswith(s, suffix) ==
  /\ Len(suffix) <= Len(s)
  /\ SubSeq(s, Len(s) - Len(suffix) + 1, Len(s)) = suffix

DOT_TXT == <<".", "T", "X", "T">>

\* [f for f in ftp.nlst() if f.upper().endswith('.TXT')]
TxtFiles(entries) ==
  LET IsTxt(e) == endswith(upper(e.name), DOT_TXT)
  IN SelectSeq(entries, IsTxt)

\* ftp.retrbinary stored the next file of the list: lines 44-51
FtpRetrieve ==
  /\ pc = "download_ftp_files"
  /\ Len(files) < Len(TxtFiles(listing))
  /\ files' = Append(files, TxtFiles(listing)[Len(files) + 1].data)
  /\ UNCHANGED << pc, outVars, parseVars, fetchVars, mergeVars >>

\* the connection, the login, the listing or a transfer raised: the except
\* block of lines 52-53 logs, and line 54 returns what was downloaded so far
FtpError ==
  /\ pc = "download_ftp_files"
  /\ ~ftp_error
  /\ ftp_error' = TRUE
  /\ pc' = "main"
  /\ UNCHANGED << files, listing, matched_file, unmatched_file, uploadVars,
                  listVars, parseVars, fetchVars, mergeVars >>

\* every listed file is downloaded (or none was listed): lines 39-41, 54
FtpReturn ==
  /\ pc = "download_ftp_files"
  /\ Len(files) = Len(TxtFiles(listing))
  /\ pc' = "main"
  /\ UNCHANGED << files, outVars, parseVars, fetchVars, mergeVars >>

\* --------------------------------------------------- main: the CSV files
\* code points of the characters that occur, in increasing order
Alphabet ==
  << " ", ".", "0", "1", "2", "3", "4", "5", "6", "7", "8", "9", "A", "B", "C",
     "E", "I", "K", "L", "N", "O", "S", "T", "U", "V", "X", "_", "a", "b", "c",
     "d", "e", "f", "g", "h", "i", "j", "k", "l", "m", "n", "o", "p", "q", "r",
     "s", "t", "u", "v", "w", "x", "y", "z" >>

Ord(c) == CHOOSE i \in DOMAIN Alphabet : Alphabet[i] = c

\* a < b for Python str
StrLess(a, b) ==
  \E i \in 1..(Min(Len(a), Len(b)) + 1) :
    /\ \A j \in 1..(i - 1) : a[j] = b[j]
    /\ IF i > Len(a) THEN i <= Len(b)
       ELSE i <= Len(b) /\ Ord(a[i]) < Ord(b[i])

\* sorted(S) for a set of str
sorted(S) ==
  [k \in 1..Cardinality(S) |->
     CHOOSE x \in S : Cardinality({ y \in S : StrLess(y, x) }) = k - 1]

api_fields ==
  { TITLE, K_description, K_cover_image, K_author, K_publisher,
    K_publication_year, K_language, K_isbn10, K_isbn13, K_pages, K_binding }

matched_fieldnames == sorted(all_input_columns \cup api_fields)
unmatched_fieldnames == sorted(all_input_columns)

\* value of column k in the CSV row written for dict m (DictWriter, restval='')
Written(m, k) == IF k \in DOMAIN m THEN m[k] ELSE EmptyStr

\* the file DictWriter(f, fieldnames, restval='') leaves: the header and one
\* line per dict, with '' for a field the dict lacks (the keys of a dict are
\* header names or keys of process_book_data, so all are field names)
CsvFile(fieldnames, data) ==
  [exists |-> TRUE, fieldnames |-> fieldnames,
   rows |-> [i \in DOMAIN data |->
               [j \in DOMAIN fieldnames |-> Written(data[i], fieldnames[j])]]]

\* what lines 230-234 (or 237-241) leave at a path
WriteIfAny(fieldnames, data) ==
  IF data = <<>> THEN NoFile ELSE CsvFile(fieldnames, data)

\* lines 202-205 and 229-247: both files, then the call of the uploader of
\* upload_supa with the path of the matched file
WriteCsv ==
  /\ pc = "write_csv"
  /\ matched_file' = WriteIfAny(matched_fieldnames, matched_data)
  /\ unmatched_file' = WriteIfAny(unmatched_fieldnames, unmatched_data)
  /\ csv_file' = matched_file'
  /\ pc' = "upload_csv_to_supabase"
  /\ UNCHANGED << files, listing, ftp_error, parseVars, fetchVars, mergeVars,
                  variant, table, reachable, stmts, data_columns, csv_rows,
                  batch_idx, up_attempt, inserted, failed_batches, failed_file,
                  uplog, uploads, listVars >>

\* feed files of the end-to-end scenario and one with a short row
FileA ==
  << Banner, NormalHeader,
     << <<"1", "0">>, <<"1", "1", "1">>, <<"O", "l", "d">> >>,
     << <<"2">>, <<"2", "2", "2">>, <<>> >> >>
FileB ==
  << Banner, NormalHeader, << <<"5", "0">>, <<"3", "3", "3">>, <<>> >> >>

MainServices ==
  { [has |-> h, tv |-> tv, noid |-> b] :
      h \in SUBSET { <<"1", "1", "1">>, <<"3", "3", "3">> },
      tv \in TitleVariants, b \in BOOLEAN }

\* what the remote directory may hold
RemoteEntries ==
  { [name |-> <<"a", ".", "t", "x", "t">>, data |-> FileA],
    [name |-> <<"b", ".", "T", "X", "T">>, data |-> FileB],
    [name |-> <<"s", ".", "t", "x", "t">>, data |-> FileShortRow],
    [name |-> <<"n", ".", "c", "s", "v">>, data |-> FileNoStock] }

Init ==
  /\ pc = "download_ftp_files"
  /\ files = <<>>
  /\ listing \in { q \in SeqsUpTo(RemoteEntries, MaxFiles) :
                    \A i, j \in DOMAIN q : q[i] = q[j] => i = j }
  /\ eans = <<>>
  /\ service \in MainServices
  /\ InitParseVars
  /\ InitFetchVars
  /\ InitMergeVars
  /\ ftp_error = FALSE
  /\ matched_file = NoFile
  /\ unmatched_file = NoFile
  /\ variant = V1
  /\ csv_file = NoFile
  /\ table = MissingTable
  /\ InitUploadVars
  /\ InitIdleListing

Next ==
  \/ FtpRetrieve
  \/ FtpError
  \/ FtpReturn
  \/ CheckFiles
  \/ ProcessFile
  \/ ProcessFilesReturn
  \/ RequestOK
  \/ RequestHTTPError
  \/ RequestNetworkError
  \/ Request429
  \/ FetchReturn
  \/ MergeRecord
  \/ MergeDone
  \/ WriteCsv
  \/ UploadOpen
  \/ CheckAndCreateTable
  \/ BatchInserted
  \/ BatchAttemptFailed
  \/ BatchFailed
  \/ UploadReturn

Spec == Init /\ [][Next]_vars

\* fetch_book_data runs on the one thread of the program and nothing
\* suspends it: while a step of its loop is enabled, one is taken
FairSpec == Spec /\ WF_vars(NextFetch)

\* ------------------------------------------------- ebay_listing7_withRT
\* stock_visiblity with a slip: a stock of 50 is already capped
stock_visiblity_CapAtFifty(actual_stock) ==
  IF actual_stock >= 50 THEN 10
  ELSE IF actual_stock < 10 THEN 2
  ELSE actual_stock

\* stock_visiblity(actual_stock)
stock_visiblity(actual_stock) ==
  IF actual_stock > 50 THEN 10
  ELSE IF actual_stock < 10 THEN 2
  ELSE actual_stock

\* Ack values for which main sets the 'listed' flag
AckedValues == { "Success", "Warning" }

item == inventory[item_idx]

\* str(stock_visiblity(int(item['stock']))), the Quantity of the payload
Quantity(it) == ToStr(stock_visiblity(IntVal(it.stock)))

\* one call of connection.execute('AddFixedPriceItem', payload)
Called(result) ==
  [id |-> item.id, quantity |-> Quantity(item), result |-> result]

InListingLoop == pc = "listing_loop" /\ item_idx <= Len(inventory)

\* the payload is built and the start price is at least 0.99
Listable ==
  /\ InListingLoop
  /\ IntParses(item.stock)
  /\ ~item.low_price

LISTED == <<"l", "i", "s", "t", "e", "d">>

\* get_existing_columns(supabase, table_name) of the listing script: the keys
\* of one sampled row; [] for a table without rows (the response carries no
\* 'columns') and for a select that raises
listing_get_existing_columns(t, answered) ==
  IF ~answered \/ t.rows = EmptyBag THEN {} ELSE t.cols

\* ALTER TABLE ... ADD COLUMN IF NOT EXISTS listed boolean DEFAULT FALSE
\* NOT NULL, sent through execute_sql
AddListedColumn ==
  [op |-> "ADD COLUMN IF NOT EXISTS", col |-> LISTED,
   type |-> "boolean DEFAULT FALSE NOT NULL"]

\* the variables of the uploader that the listing script leaves alone
listingFrame ==
  << files, listing, ftp_error, matched_file, unmatched_file,
     variant, csv_file, reachable, data_columns, csv_rows,
     batch_idx, up_attempt, inserted, failed_batches,
     failed_file, uplog, uploads, parseVars, fetchVars, mergeVars >>

\* lines 271-298: the columns are read and, when 'listed' is not among
\* them, the ALTER TABLE is sent; an rpc that raises is caught and printed
EnsureListedColumn ==
  /\ pc = "ebay_listing_main"
  /\ \E answered \in BOOLEAN, executed \in BOOLEAN :
       LET columns == listing_get_existing_columns(table, answered)
       IN /\ stmts' = IF LISTED \in columns THEN <<>>
                       ELSE << AddListedColumn >>
          /\ table' = IF LISTED \notin columns /\ executed
                      THEN [table EXCEPT !.cols = @ \cup { LISTED }]
                      ELSE table
  /\ pc' = "refresh_access_token"
  /\ UNCHANGED << listVars, listingFrame >>

\* line 304: refresh_access_token raises for an error status (line 193)
EbayRefreshToken ==
  /\ pc = "refresh_access_token"
  /\ \E refreshed \in BOOLEAN :
       IF refreshed
       THEN pc' = "inventory_select" /\ UNCHANGED ebay_failure
       ELSE pc' = "raised" /\ ebay_failure' = "refresh_access_token"
  /\ UNCHANGED << inventory, item_idx, listed, success_count, calls >>
  /\ UNCHANGED << table, stmts, listingFrame >>

\* the rows a select with eq('listed', False) returns: the stored rows that
\* have not been set to listed
Unlisted(rows) ==
  LET NotListed(it) == it.id \notin listed
  IN SelectSeq(rows, NotListed)

\* line 313: the unlisted rows are read; the select raises when the store
\* fails or the table has no column 'listed'
ReadInventory ==
  /\ pc = "inventory_select"
  /\ \E answered \in BOOLEAN :
       IF answered /\ LISTED \in table.cols
       THEN /\ pc' = "listing_loop"
            /\ inventory' = Unlisted(inventory)
            /\ UNCHANGED ebay_failure
       ELSE /\ pc' = "raised"
            /\ ebay_failure' = "inventory"
            /\ UNCHANGED inventory
  /\ UNCHANGED << item_idx, listed, success_count, calls >>
  /\ UNCHANGED << table, stmts, listingFrame >>

\* line 319: the token is older than TOKEN_LIFESPAN and the refresh raises,
\* outside the try block
EnsureTokenFails ==
  /\ InListingLoop
  /\ pc' = "raised"
  /\ ebay_failure' = "ensure_token_valid"
  /\ UNCHANGED << inventory, item_idx, listed, success_count, calls >>
  /\ UNCHANGED << files, listing, ftp_error, matched_file, unmatched_file,
                  uploadVars, parseVars, fetchVars, mergeVars >>

\* the loop goes on with the next item
NextItem ==
  /\ item_idx' = item_idx + 1
  /\ UNCHANGED << pc, inventory, ebay_failure >>
  /\ UNCHANGED << files, listing, ftp_error, matched_file, unmatched_file,
                  uploadVars, parseVars, fetchVars, mergeVars >>

\* lines 321-394: building the payload raises (here int(item['stock'])),
\* caught at line 414
ItemPrepareFails ==
  /\ InListingLoop
  /\ ~IntParses(item.stock)
  /\ UNCHANGED << listed, success_count, calls >>
  /\ NextItem

\* lines 391-392: no start price or one below 0.99
ItemLowPrice ==
  /\ InListingLoop
  /\ IntParses(item.stock)
  /\ item.low_price
  /\ UNCHANGED << listed, success_count, calls >>
  /\ NextItem

\* lines 395-400: the call is acknowledged; the update of the row may raise,
\* caught at line 414
ItemAcked ==
  /\ Listable
  /\ \E ack \in AckedValues : calls' = Append(calls, Called(ack))
  /\ \E updated \in BOOLEAN :
       IF updated
       THEN /\ listed' = listed \cup { item.id }
            /\ success_count' = success_count + 1
       ELSE UNCHANGED << listed, success_count >>
  /\ NextItem

\* the call returns another Ack value
ItemNotAcked ==
  /\ Listable
  /\ calls' = Append(calls, Called("Failure"))
  /\ UNCHANGED << listed, success_count >>
  /\ NextItem

\* lines 401, 410-412: ConnectionError that is no token error
EbayError ==
  /\ Listable
  /\ calls' = Append(calls, Called("ConnectionError"))
  /\ UNCHANGED << listed, success_count >>
  /\ NextItem

\* lines 401-409: token error, the token is refreshed, the call is repeated
\* and acknowledged, the row is updated
RetryAcked ==
  /\ Listable
  /\ \E ack \in AckedValues :
       calls' = calls \o << Called("token expired"), Called(ack) >>
  /\ listed' = listed \cup { item.id }
  /\ UNCHANGED success_count
  /\ NextItem

\* the repeated call returns another Ack value
RetryNotAcked ==
  /\ Listable
  /\ calls' = calls \o << Called("token expired"), Called("Failure") >>
  /\ UNCHANGED << listed, success_count >>
  /\ NextItem

\* an exception raised inside the except block of lines 401-409 is caught by
\* no handler of the loop and leaves main
HandlerRaises(cause) ==
  /\ pc' = "raised"
  /\ ebay_failure' = cause
  /\ UNCHANGED item_idx

\* lines 408-412: after the token error the refresh raises, the repeated
\* call raises, or the call is acknowledged and the update of the row raises
RetryFails ==
  /\ Listable
  /\ \E cause \in { "refresh", "retry", "update" } :
       /\ \E ack \in AckedValues :
            calls' =
              CASE cause = "refresh" -> Append(calls, Called("token expired"))
                [] cause = "retry" ->
                     calls \o << Called("token expired"),
                                 Called("ConnectionError") >>
                [] OTHER ->
                     calls \o << Called("token expired"), Called(ack) >>
       /\ HandlerRaises(cause)
  /\ UNCHANGED << inventory, listed, success_count >>
  /\ UNCHANGED << files, listing, ftp_error, matched_file, unmatched_file,
                  uploadVars, parseVars, fetchVars, mergeVars >>

\* update_present_listing.py, run against the same table: every row whose
\* isbn13 stands in the file gets listed = True, without a marketplace call;
\* an identifier no row has is reported as not found
UpdatePresentListing ==
  /\ pc \in { "ebay_listing_main", "refresh_access_token",
              "inventory_select", "listing_loop", "listing_done", "raised" }
  /\ LISTED \in table.cols
  /\ \E isbn_list \in SUBSET (1..(MaxItems + 1)) :
       listed' = listed \cup
                   (isbn_list \cap { inventory[i].id : i \in DOMAIN inventory })
  /\ UNCHANGED << pc, inventory, item_idx, success_count, calls,
                  ebay_failure >>
  /\ UNCHANGED << files, listing, ftp_error, matched_file, unmatched_file,
                  uploadVars, parseVars, fetchVars, mergeVars >>

\* the loop has had every item
ListingDone ==
  /\ pc = "listing_loop"
  /\ item_idx > Len(inventory)
  /\ pc' = "listing_done"
  /\ UNCHANGED listVars
  /\ UNCHANGED << files, listing, ftp_error, matched_file, unmatched_file,
                  uploadVars, parseVars, fetchVars, mergeVars >>

\* stock values of stored rows: the text of the record's stock field
ItemStocks ==
  { <<"5">>, <<"9">>, <<"1", "0">>, <<"5", "0">>, <<"5", "1">>, <<"1">>,
    <<"O", "l", "d">> }

\* a row of the table as far as the loop reads it: its stock text and
\* whether its start price comes out below 0.99
ItemKinds ==
  { [stock |-> s, low_price |-> FALSE] : s \in ItemStocks }
    \cup { [stock |-> <<"1", "0">>, low_price |-> TRUE] }

Inventories ==
  { [i \in 1..Len(q) |->
       [id |-> i, stock |-> q[i].stock, low_price |-> q[i].low_price]] :
      q \in SeqsUpTo(ItemKinds, MaxItems) }

\* a stored row of the table, as far as the model reads it
ItemRow(it) == (K_id :> ToStr(it.id)) @@ (STOCK :> it.stock)

\* a row that was listed before
ListedRow == (K_id :> <<"0">>) @@ (STOCK :> <<"1", "0">>)

\* the table the listing script finds: it holds the unlisted rows, with or
\* without the column 'listed'; with the column it may hold a listed row
ListingTables(inv) ==
  LET unlisted == SetToBag({ ItemRow(inv[i]) : i \in DOMAIN inv })
  IN { [exists |-> TRUE, cols |-> { K_id, STOCK }, pk |-> FALSE,
        rows |-> unlisted],
       [exists |-> TRUE, cols |-> { K_id, STOCK, LISTED }, pk |-> FALSE,
        rows |-> unlisted],
       [exists |-> TRUE, cols |-> { K_id, STOCK, LISTED }, pk |-> FALSE,
        rows |-> unlisted (+) SetToBag({ ListedRow })] }

InitListing ==
  /\ pc = "ebay_listing_main"
  /\ inventory \in Inventories
  /\ item_idx = 1
  /\ listed = {}
  /\ success_count = 0
  /\ calls = <<>>
  /\ ebay_failure = "none"
  /\ InitIdleFeed
  /\ variant = V1
  /\ csv_file = NoFile
  /\ table \in ListingTables(inventory)
  /\ InitUploadVars

NextListing ==
  \/ EnsureListedColumn
  \/ EbayRefreshToken
  \/ ReadInventory
  \/ EnsureTokenFails
  \/ ItemPrepareFails
  \/ ItemLowPrice
  \/ ItemAcked
  \/ ItemNotAcked
  \/ EbayError
  \/ RetryAcked
  \/ RetryNotAcked
  \/ RetryFails
  \/ UpdatePresentListing
  \/ ListingDone

SpecListing == InitListing /\ [][NextListing]_vars

\* ================================================================ claims

\* C1: after process_files every returned record has a stock value that
\* parses as an integer strictly greater than 4.
C1_RetainedStockAboveThreshold ==
  \A i \in DOMAIN all_rows :
    /\ STOCK \in DOMAIN all_rows[i]
    /\ IntParses(all_rows[i][STOCK])
    /\ IntVal(all_rows[i][STOCK]) > STOCK_THRESHOLD

\* C2: in the merge phase every record of process_files lands in exactly one
\* of matched and unmatched, in matched iff its identifier is a key of the
\* enrichment mapping, so |matched| + |unmatched| is the number of records
\* handled so far.
C2_MergePartition ==
  /\ Len(matched_data) + Len(unmatched_data) = Len(placed)
  /\ \A i \in DOMAIN placed :
       /\ placed[i].to \in { "matched", "unmatched" }
       /\ placed[i].to = "matched" <=>
            (EAN \in DOMAIN all_rows[i] /\ all_rows[i][EAN] \in DOMAIN api_data)

\* C3: in a matched record, a field present in both the feed row and the
\* enrichment record carries the enrichment value when that value is not
\* None, "" or "null", and the feed row's value otherwise.
C3_OverlayKeepsFeedValue ==
  \A i \in DOMAIN placed :
    placed[i].to = "matched" =>
      LET row == all_rows[i]
          book_data == api_data[strip(row[EAN])]
          merged == matched_data[placed[i].at]
      IN \A k \in DOMAIN row \cap DOMAIN book_data :
           Written(merged, k) =
             IF book_data[k] \notin { NoneVal, EmptyStr, NullStr }
             THEN book_data[k] ELSE row[k]

NumChunks == (total_eans + BATCH_SIZE - 1) \div BATCH_SIZE

OnlyLastChunkFailed ==
  /\ Len(log) < MaxLog
  /\ \A i \in DOMAIN log : log[i].batch < NumChunks - 1 => log[i].outcome = "ok"
  /\ \E i \in DOMAIN log : log[i].batch = NumChunks - 1 /\ log[i].outcome # "ok"

\* C4: fetch_book_data issues one lookup per consecutive chunk of 100
\* identifiers: with no failure exactly ceil(n/100) requests, each of 100
\* identifiers but the last, which has the rest; and when only the last
\* chunk's request fails the returned mapping holds every result of the
\* earlier chunks.
C4_Chunking ==
  pc = "merge" =>
    /\ (Len(log) < MaxLog /\ \A i \in DOMAIN log : log[i].outcome = "ok") =>
         /\ Len(log) = NumChunks
         /\ \A i \in DOMAIN log :
              /\ log[i].batch = i - 1
              /\ log[i].size = Min(BATCH_SIZE, total_eans - (i - 1) * BATCH_SIZE)
    /\ OnlyLastChunkFailed =>
         \A j \in 1..((NumChunks - 1) * BATCH_SIZE) :
           eans[j] \in service.has =>
             /\ eans[j] \in DOMAIN api_data
             /\ api_data[eans[j]] = process_book_data(RawBook(eans[j], service.tv))

\* 250 identifiers, requests of 100, 100 and 50, the third one failed, and
\* the results of the first two are in the mapping
C4_Witness ==
  /\ pc = "merge"
  /\ total_eans = 250
  /\ Len(log) = 3
  /\ << log[1].size, log[2].size, log[3].size >> = << 100, 100, 50 >>
  /\ << log[1].outcome, log[2].outcome >> = << "ok", "ok" >>
  /\ log[3].outcome \in { "http_error", "network_error" }
  /\ Cardinality(DOMAIN api_data) = 200

\* C5: a lookup that fails with a network error or a 5xx response is
\* attempted again for the same chunk while attempts remain.
C5_TransientFailureRetried ==
  [][ ((RequestHTTPError \/ RequestNetworkError) /\ attempt < MAX_API_RETRIES)
        => (batch_num' = batch_num /\ attempt' = attempt + 1) ]_vars

\* C6: whatever the service answers, at most 3 requests are ever issued for
\* one chunk.
C6_AtMostThreeRequestsPerChunk ==
  \A b \in 0..batch_num :
    Cardinality({ i \in DOMAIN log : log[i].batch = b }) <= MAX_API_RETRIES

\* C7: fetch_book_data terminates for every behaviour of the service.
C7_FetchTerminates == (pc = "fetch_book_data") ~> (pc = "merge")

\* C8: when a chunk exhausts its retries the loop advances to the next
\* chunk.
C8_ExhaustedChunkSkipped ==
  [][ (Request429 /\ attempt = MAX_API_RETRIES) => batch_num' = batch_num + 1 ]_vars

\* the records of the rows of `file` that pass the filter, in row order
KeepableRecords(file) ==
  LET headers == Headers(file)
      Keep(row) == RowOutcome(headers, StockIdx(headers), row) = "keep"
      rows == SelectSeq(SubSeq(file, 3, Len(file)), Keep)
  IN [i \in 1..Len(rows) |-> RowDict(headers, rows[i])]

\* a file whose only row-level failure is a stock value that is no integer
OnlyStockParseFailures(file) ==
  /\ Len(file) >= 2
  /\ HasStock(Headers(file))
  /\ \A r \in 3..Len(file) :
       RowOutcome(Headers(file), StockIdx(Headers(file)), file[r])
         \in { "skip", "keep", "ValueError" }

\* C9: a row whose stock value fails integer parsing is discarded on its
\* own: the rows of the same file that pass the filter, before and after
\* it, are all appended to the record list.
C9_BadRowDiscardedAlone ==
  [][ (pc = "process_files" /\ fileIdx <= Len(files) /\ fileIdx' = fileIdx + 1
         /\ OnlyStockParseFailures(files[fileIdx]))
        => all_rows' = all_rows \o KeepableRecords(files[fileIdx]) ]_vars

NoStockColumn(file) == Len(file) >= 2 /\ ~HasStock(Headers(file))

\* C10: a file whose header row has no 'stock' column adds no record and no
\* identifier, the file loop goes on with the next file, and process_files
\* returns only after every file of the list has had its turn.
C10_NoStockFileSkipped ==
  /\ [][ (pc = "process_files" /\ fileIdx <= Len(files)
            /\ NoStockColumn(files[fileIdx]))
           => (/\ all_rows' = all_rows
               /\ ean_set' = ean_set
               /\ fileIdx' = fileIdx + 1
               /\ pc' = "process_files") ]_vars
  /\ [](pc # "process_files" => fileIdx = Len(files) + 1)

\* the first file had no 'stock' column and a later file has added a record
C10_Witness ==
  /\ Len(files) >= 2
  /\ NoStockColumn(files[1])
  /\ fileIdx > 2
  /\ all_rows # <<>>

\* C11: the identifier list handed to fetch_book_data holds each identifier
\* of the retained records exactly once, also when the identifier occurs in
\* several files or in several rows of one file, so every identifier has
\* one chunk position.
C11_IdentifiersUnique ==
  pc = "fetch_book_data" =>
    /\ \A i, j \in DOMAIN eans : eans[i] = eans[j] => i = j
    /\ Range(eans) =
         { all_rows[i][EAN] : i \in { r \in DOMAIN all_rows : EAN \in DOMAIN all_rows[r] } }

\* two files, three retained records of identifier 111 (two of them from
\* one file), and a list of one identifier handed over
C11_Witness ==
  /\ pc = "fetch_book_data"
  /\ files = << FileSpacedEan, << Banner, NormalHeader, GoodRow >> >>
  /\ Len(all_rows) = 3
  /\ \A i \in DOMAIN all_rows : all_rows[i][EAN] = <<"1", "1", "1">>
  /\ eans = << <<"1", "1", "1">> >>

\* rows and identifiers the table holds
RowCount(t) == BagCardinality(t.rows)
OneRowPerEan(t) == Cardinality(StoredEans(t)) = RowCount(t)

\* C12: through the key-based upsert of upload_supaV2, a batch whose keys are
\* all stored already leaves the row count unchanged, an accepted batch never
\* gives an ean a second row, and under the key on ean the table holds at
\* most one row per ean.
C12_UpsertIdempotent ==
  /\ [][ (variant = V2 /\ BatchInserted) =>
           /\ EansOf(UploadBatch) \subseteq StoredEans(table)
                => RowCount(table') = RowCount(table)
           /\ OneRowPerEan(table) => OneRowPerEan(table') ]_vars
  /\ []((variant = V2 /\ table.pk) => OneRowPerEan(table))

\* the same file of more than one row was upserted in a second run, every
\* batch was accepted, and the table holds as many rows as the file
C12_Witness ==
  /\ variant = V2
  /\ uploads = 2
  /\ pc = "done"
  /\ total_records > 1
  /\ inserted = total_records
  /\ RowCount(table) = total_records
  /\ \A i \in DOMAIN uplog : uplog[i].outcome = "inserted"

\* the step of check_and_create_table on a table that exists
SchemaSyncStep ==
  pc = "check_and_create_table" /\ reachable /\ table.exists

\* C13: on an existing table, with or without rows, check_and_create_table
\* issues exactly one ADD COLUMN statement for each incoming column the table
\* lacks and none for a column the table has.
C13_AddColumnPerMissingColumn ==
  [][ SchemaSyncStep =>
        \A col \in Range(data_columns) \cup table.cols :
          Cardinality({ i \in DOMAIN stmts' : stmts'[i] = AddColumn(col) })
            = IF col \in Range(data_columns) \ table.cols THEN 1 ELSE 0 ]_vars

\* C14: on an existing table every statement check_and_create_table issues is
\* an ADD COLUMN of type TEXT, and the columns and the key of the table that
\* were there stay as they were.
C14_SchemaSyncOnlyAddsColumns ==
  [][ SchemaSyncStep =>
        /\ \A i \in DOMAIN stmts' :
             /\ stmts'[i].op = "ADD COLUMN IF NOT EXISTS"
             /\ stmts'[i].type = "TEXT"
        /\ table.cols \subseteq table'.cols
        /\ table'.pk = table.pk
        /\ table'.rows = table.rows ]_vars

\* C15: when the table does not exist, check_and_create_table creates it
\* with every incoming column and returns, and the upload goes on to its
\* batches: a missing table never makes the run fail.
C15_MissingTableCreated ==
  [][ (pc = "check_and_create_table" /\ ~table.exists) =>
        /\ pc' = "batches"
        /\ table'.exists
        /\ Range(data_columns) \subseteq table'.cols
        /\ Len(stmts') = 1
        /\ stmts'[1].op = "CREATE TABLE"
        /\ Range(data_columns) \subseteq Range(stmts'[1].type) \cup { stmts'[1].col }
      ]_vars

NumBatches ==
  (total_records + UploadBatchSize(variant) - 1) \div UploadBatchSize(variant)

RequestsFor(k) == { i \in DOMAIN uplog : uplog[i].batch = k }

BatchOf(k) ==
  Slice(csv_rows, (k - 1) * UploadBatchSize(variant),
        k * UploadBatchSize(variant))

BatchSucceeded(k) ==
  \E i \in RequestsFor(k) : uplog[i].outcome = "inserted"

BatchIsFailed(k) == \E j \in DOMAIN failed_batches : failed_batches[j] = BatchOf(k)

\* C16: each batch gets at most 3 requests; a batch whose 3 requests all
\* failed is in the failed-batch list and the side file, and the later
\* batches are requested all the same, in order; a failed batch does not end
\* the upload with an exception.
C16_FailedBatchIsolated ==
  /\ \A k \in 1..NumBatches : Cardinality(RequestsFor(k)) <= UPLOAD_ATTEMPTS
  /\ \A i \in DOMAIN uplog :
       /\ uplog[i].batch \in 1..NumBatches
       /\ uplog[i].size = Len(BatchOf(uplog[i].batch))
       /\ i > 1 => uplog[i].batch \in { uplog[i - 1].batch, uplog[i - 1].batch + 1 }
       /\ (i > 1 /\ uplog[i].batch = uplog[i - 1].batch) =>
            uplog[i - 1].outcome = "error"
  /\ pc = "raised" => uplog = <<>>
  /\ pc = "done" =>
       /\ \A k \in 1..NumBatches :
            /\ RequestsFor(k) # {}
            /\ ~BatchSucceeded(k) =>
                 /\ Cardinality(RequestsFor(k)) = UPLOAD_ATTEMPTS
                 /\ BatchIsFailed(k)
                 /\ failed_file.exists
                 /\ \E j \in DOMAIN failed_file.rows : failed_file.rows[j] = BatchOf(k)

\* three batches, the first failed three times and the two after it were
\* inserted
C16_Witness ==
  /\ pc = "done"
  /\ NumBatches = 3
  /\ Len(uplog) = 5
  /\ \A i \in 1..3 : uplog[i].batch = 1 /\ uplog[i].outcome = "error"
  /\ uplog[4].batch = 2 /\ uplog[4].outcome = "inserted"
  /\ uplog[5].batch = 3 /\ uplog[5].outcome = "inserted"
  /\ failed_batches = << BatchOf(1) >>
  /\ failed_file.exists

\* rows in the failed batches
FailedRows ==
  LET sum[j \in 0..Len(failed_batches)] ==
        IF j = 0 THEN 0 ELSE sum[j - 1] + Len(failed_batches[j])
  IN sum[Len(failed_batches)]

\* C17: when the upload has finished, every batch either succeeded or is in
\* the failed-batch list, never both, the reported count plus the rows of
\* the failed batches is the number of rows read, and the side file exists
\* iff a batch failed.
C17_UploadAccounting ==
  pc = "done" =>
    /\ \A k \in 1..NumBatches : BatchSucceeded(k) <=> ~BatchIsFailed(k)
    /\ Len(failed_batches) =
         Cardinality({ k \in 1..NumBatches : ~BatchSucceeded(k) })
    /\ inserted + FailedRows = total_records
    /\ failed_file.exists <=> failed_batches # <<>>

\* 250 rows: the second batch failed, 150 rows are reported and 100 are in
\* the side file
C17_Witness ==
  /\ pc = "done"
  /\ total_records = 250
  /\ inserted = 150
  /\ failed_batches = << BatchOf(2) >>
  /\ failed_file.exists
  /\ FailedRows = 100

\* the run is past the file check of main
PastFileCheck == pc \notin { "download_ftp_files", "main", "raised" }

\* C18: when the feed retriever met a connection or authentication failure,
\* at any point of the retrieval, the run is aborted: no file is parsed,
\* nothing is requested from the lookup service, nothing is written or
\* uploaded.
C18_RetrieverFailureAbortsRun ==
  ftp_error =>
    /\ ~PastFileCheck
    /\ fileIdx = 1
    /\ all_rows = <<>>
    /\ api_data = EmptyDict
    /\ ~matched_file.exists /\ ~unmatched_file.exists
    /\ uploads = 0

\* C19: a run that retrieved at least one feed file does not end with an
\* exception, whatever fails in parsing, enrichment or persistence; this
\* includes the run whose matched partition is empty.
C19_OnlyInputAbsenceTerminates ==
  pc = "raised" => files = <<>>

\* a CSV file holds one value per column of its header in every row
EveryColumnWritten(file, fieldnames) ==
  /\ file.fieldnames = fieldnames
  /\ \A i \in DOMAIN file.rows : DOMAIN file.rows[i] = DOMAIN fieldnames

\* the run is past the writing of the output files
PastWriteCsv ==
  /\ PastFileCheck
  /\ pc \notin { "process_files", "fetch_book_data", "merge", "write_csv" }

\* C20: a run that completed the merge has written the matched and the
\* unmatched file, also for an empty partition, and every written row has
\* a value (possibly '') for every column of its partition's sorted column
\* set.
C20_TwoOutputFiles ==
  PastWriteCsv =>
    /\ matched_file.exists
    /\ unmatched_file.exists
    /\ EveryColumnWritten(matched_file, matched_fieldnames)
    /\ EveryColumnWritten(unmatched_file, unmatched_fieldnames)
    /\ Len(matched_file.rows) = Len(matched_data)
    /\ Len(unmatched_file.rows) = Len(unmatched_data)

\* the program entered at main, at fetch_book_data with an identifier list
\* of up to MaxEans identifiers, or at upload_csv_to_supabase with a CSV
\* file of up to MaxUploadRows rows
InitOrder == Init \/ InitFetch \/ InitUpload

NextOrder == Next \/ UploadAgain

SpecOrder == InitOrder /\ [][NextOrder]_vars

\* what process_files holds after the first n files of the list
RECURSIVE ParsedUpTo(_)
ParsedUpTo(n) ==
  IF n = 0
  THEN [all_rows |-> <<>>, ean_set |-> {}, all_input_columns |-> {}]
  ELSE ProcessOneFile(files[n], ParsedUpTo(n - 1))

\* the first request is for the first chunk (or batch); a request is for
\* the chunk of the request before it only when that request failed, and
\* for the next chunk otherwise
InSubmissionOrder(requests, first, failed) ==
  \A i \in DOMAIN requests :
    /\ i = 1 => requests[i].batch = first
    /\ i > 1 =>
         \/ requests[i].batch = requests[i - 1].batch + 1
         \/ /\ requests[i].batch = requests[i - 1].batch
            /\ requests[i - 1].outcome \in failed

\* C21: the feed files are downloaded in listing order and parsed in that
\* order, the enrichment chunks are requested in the order of the
\* identifier list and the upload batches in row order; after a failed
\* request the next request is for the same or the following chunk or
\* batch, and when the loop has ended every chunk and every batch has been
\* requested.
C21_Ordering ==
  /\ Len(files) <= Len(TxtFiles(listing))
  /\ listing # <<>> =>
       \A i \in DOMAIN files : files[i] = TxtFiles(listing)[i].data
  /\ all_rows = ParsedUpTo(fileIdx - 1).all_rows
  /\ InSubmissionOrder(log, 0, { "rate_limited" })
  /\ \A i \in DOMAIN log :
       log[i].size =
         Len(Slice(eans, log[i].batch * BATCH_SIZE,
                   log[i].batch * BATCH_SIZE + BATCH_SIZE))
  /\ (pc = "merge" /\ Len(log) < MaxLog) =>
       { log[i].batch : i \in DOMAIN log } = 0..(NumChunks - 1)
  /\ InSubmissionOrder(uplog, 1, { "error" })
  /\ \A i \in DOMAIN uplog : uplog[i].size = Len(BatchOf(uplog[i].batch))
  /\ pc = "done" => { uplog[i].batch : i \in DOMAIN uplog } = 1..NumBatches

\* fetch_book_data with 250 identifiers: the request of the first chunk
\* failed, and the second and the third chunk were requested after it
C21_Witness ==
  /\ pc = "merge"
  /\ total_eans = 250
  /\ Len(log) = 3
  /\ log[1].outcome \in { "http_error", "network_error" }
  /\ << log[1].batch, log[2].batch, log[3].batch >> = << 0, 1, 2 >>
  /\ << log[1].size, log[2].size, log[3].size >> = << 100, 100, 50 >>

\* a value the merge treats as absent
Absent(v) == v \in { NoneVal, EmptyStr, NullStr }

\* C22: in a matched record a field that the feed row and the enrichment
\* record both have keeps the feed value whenever the feed value is not
\* None, "" or "null", whatever the enrichment record supplies.
C22_FeedValueKept ==
  \A i \in DOMAIN placed :
    placed[i].to = "matched" =>
      LET row == all_rows[i]
          book_data == api_data[strip(row[EAN])]
          merged == matched_data[placed[i].at]
      IN \A k \in DOMAIN row \cap DOMAIN book_data :
           ~Absent(row[k]) => Written(merged, k) = row[k]

\* the identifiers of chunk b of the identifier list
ChunkIds(b) == Range(Slice(eans, b * BATCH_SIZE, b * BATCH_SIZE + BATCH_SIZE))

\* C23: the mapping built from the responses has a key for every record
\* that carries the identifier field and for no other record, and no key
\* maps to a null value: a record without the identifier field is left
\* out, and the records returned with it are kept.
C23_NoIdentifierNoKey ==
  /\ \A k \in DOMAIN api_data :
       /\ api_data[k] # NoneVal
       /\ k \in service.has
       /\ api_data[k] = process_book_data(RawBook(k, service.tv))
  /\ \A i \in DOMAIN log :
       (Len(log) < MaxLog /\ log[i].outcome = "ok") =>
         ChunkIds(log[i].batch) \cap service.has \subseteq DOMAIN api_data

\* three responses, each with a record that lacks the identifier field
\* next to the records of the chunk: the 250 records with identifier are
\* the keys
C23_Witness ==
  /\ pc = "merge"
  /\ service.noid
  /\ total_eans = 250
  /\ Len(log) = 3
  /\ \A i \in DOMAIN log : log[i].outcome = "ok"
  /\ DOMAIN api_data = Range(eans)

\* C24: an accepted upsert of upload_supaV2 is insert-or-update by ean:
\* after it, the stored row of every ean of the batch that was in the
\* table before carries the values of the uploaded row of that ean.
C24_UpsertUpdatesStoredRow ==
  [][ (variant = V2 /\ BatchInserted) =>
        \A i \in DOMAIN UploadBatch :
          (/\ UploadBatch[i][EAN] \in StoredEans(table)
           /\ \A j \in DOMAIN UploadBatch :
                UploadBatch[j][EAN] = UploadBatch[i][EAN] => j <= i) =>
            \A r \in BagToSet(table'.rows) :
              Get(r, EAN) = UploadBatch[i][EAN] => r = UploadBatch[i] ]_vars

\* C25: the record list of process_files holds at most one record per ean,
\* also when the ean stands in several rows or in several files, so that
\* the table upload_supa fills holds at most one row per ean.
C25_OneRecordPerEan ==
  /\ \A i, j \in DOMAIN all_rows :
       (i # j /\ EAN \in DOMAIN all_rows[i] /\ EAN \in DOMAIN all_rows[j]) =>
         all_rows[i][EAN] # all_rows[j][EAN]
  /\ (variant = V1 /\ uploads > 0) => OneRowPerEan(table)

Ean111 == <<"1", "1", "1">>
Ean222 == <<"2", "2", "2">>
Ean333 == <<"3", "3", "3">>

\* the scenario: files A and B were downloaded, the service knows 111 only
\* and its answer to the one lookup of the run arrived
ScenarioRun ==
  /\ Len(files) = 2
  /\ Range(files) = { FileA, FileB }
  /\ service.has = { Ean111 }
  /\ log # <<>>
  /\ log[Len(log)].outcome = "ok"

\* the ean values of a list of records
RecordEans(q) == { Get(q[i], EAN) : i \in DOMAIN q }

\* C26: with file A (111 with stock 10, 222 with stock 2), file B (333 with
\* stock 50) and a service that returns data for 111 only, the identifier
\* set is {111, 333}, the matched partition is the one record of 111, the
\* unmatched partition is the one record of 333, and 222 is in neither;
\* the two files written hold these rows.
C26_EndToEndScenario ==
  ScenarioRun =>
    /\ ean_set = { Ean111, Ean333 }
    /\ Range(eans) = { Ean111, Ean333 } /\ Len(eans) = 2
    /\ DOMAIN api_data = { Ean111 }
    /\ pc \notin { "fetch_book_data", "merge" } =>
         /\ Len(matched_data) = 1 /\ RecordEans(matched_data) = { Ean111 }
         /\ Len(unmatched_data) = 1 /\ RecordEans(unmatched_data) = { Ean333 }
    /\ Ean222 \notin RecordEans(matched_data) \cup RecordEans(unmatched_data)
    /\ PastWriteCsv =>
         /\ matched_file.exists /\ Len(matched_file.rows) = 1
         /\ unmatched_file.exists /\ Len(unmatched_file.rows) = 1

\* the scenario has run to the end of the upload: one row of 111 was
\* inserted into the table
C26_Witness ==
  /\ ScenarioRun
  /\ files = << FileA, FileB >>
  /\ pc = "done"
  /\ Len(matched_data) = 1
  /\ Len(unmatched_data) = 1
  /\ inserted = 1
  /\ StoredEans(table) = { Ean111 }

\* C27: the identifier set of process_files is exactly the set of the
\* 'ean' values of the returned records: every record has the key 'ean',
\* its value is in the set, and the set holds nothing else (no identifier
\* of a discarded row).
C27_IdentifierSetMatchesRecords ==
  /\ \A i \in DOMAIN all_rows :
       EAN \in DOMAIN all_rows[i] /\ all_rows[i][EAN] \in ean_set
  /\ ean_set = RecordEans(all_rows) \ { NoneVal }

\* every value of record m stands in the row written for it, under its key
WrittenInFull(file, n, m) ==
  \A k \in DOMAIN m :
    \E j \in DOMAIN file.fieldnames :
      file.fieldnames[j] = k /\ file.rows[n][j] = m[k]

\* C28: every key of a matched record is an observed feed column or one of
\* the 11 enrichment fields, every key of an unmatched record is an
\* observed feed column, and no value of a matched record is None, "" or
\* "null"; so each record is written in full under the header of its file.
C28_RecordKeysAreColumns ==
  /\ \A i \in DOMAIN matched_data :
       /\ DOMAIN matched_data[i] \subseteq all_input_columns \cup api_fields
       /\ \A k \in DOMAIN matched_data[i] : ~Absent(matched_data[i][k])
  /\ \A i \in DOMAIN unmatched_data :
       DOMAIN unmatched_data[i] \subseteq all_input_columns
  /\ Cardinality(api_fields) = 11
  /\ PastWriteCsv =>
       /\ \A i \in DOMAIN matched_data :
            WrittenInFull(matched_file, i, matched_data[i])
       /\ \A i \in DOMAIN unmatched_data :
            WrittenInFull(unmatched_file, i, unmatched_data[i])

\* both files are written; the service's title was "null" and the matched
\* record has no title, the unmatched record has the keys of its feed row
C28_Witness ==
  /\ PastWriteCsv
  /\ service.tv = "null"
  /\ Len(matched_data) = 1 /\ TITLE \notin DOMAIN matched_data[1]
  /\ K_author \in DOMAIN matched_data[1]
  /\ Len(unmatched_data) = 1
  /\ DOMAIN unmatched_data[1] = all_input_columns
  /\ matched_file.exists /\ unmatched_file.exists

\* ids whose AddFixedPriceItem call was acknowledged
AckedIdsIn(cs) ==
  { cs[i].id : i \in { j \in DOMAIN cs : cs[j].result \in AckedValues } }

AckedIds == AckedIdsIn(calls)

\* a step of the listing loop of main
ListingLoopStep == InListingLoop /\ (item_idx' # item_idx \/ pc' # pc)

\* C29: in the listing loop the 'listed' flag of an item is set only after
\* the marketplace acknowledged that item's call with Success or Warning,
\* and a failure while one item is listed, the failed retry after a token
\* refresh included, leaves no later item unattempted: when main has ended,
\* normally or with an exception raised in the loop, the item in hand was
\* the last one.
C29_ListingLoopIsolatesFailures ==
  /\ [][ ListingLoopStep =>
          (listed' \ listed) \subseteq (AckedIdsIn(calls') \cap { item.id })
       ]_vars
  /\ [](pc = "listing_done" => item_idx = Len(inventory) + 1)
  /\ []((pc = "raised" /\ ebay_failure \in { "refresh", "retry", "update" })
          => item_idx = Len(inventory))

\* the stock of the item of call c, as an integer
CallStock(c) ==
  IntVal((CHOOSE it \in Range(inventory) : it.id = c.id).stock)

\* C30: for every stock the pipeline can retain (an integer greater than
\* 4), the quantity published by stock_visiblity is at least 1 and at most
\* the stock: 2 below 10, the stock itself from 10 to 50, and 10 above 50.
C30_PublishedQuantityWithinStock ==
  \A i \in DOMAIN calls :
    LET q == IntVal(calls[i].quantity)
        s == CallStock(calls[i])
    IN s > STOCK_THRESHOLD =>
         /\ q >= 1
         /\ q <= s
         /\ q = (IF s < 10 THEN 2 ELSE IF s <= 50 THEN s ELSE 10)

\* one run published an item of stock 50 with its own stock and an item of a
\* stock between 5 and 9 with 2
C30_Witness ==
  /\ \E i \in DOMAIN calls :
       CallStock(calls[i]) = 50 /\ IntVal(calls[i].quantity) = 50
  /\ \E i \in DOMAIN calls :
       /\ CallStock(calls[i]) \in 5..9
       /\ IntVal(calls[i].quantity) = 2

====
